---- MODULE Spec2Model ----
(***************************************************************************)
(* Model of the memoizing evaluator `Cacher` of closures-13/src/main.rs,   *)
(* and of the programs of shared_state-20, message_passing-19, threads-18. *)
(*                                                                         *)
(* The Cacher holds a closure `calculation: T` (T: Fn(u32) -> u32) and one *)
(* slot `value: Option<u32>`.  `Cacher::new` stores the closure with an    *)
(* empty slot; `Cacher::value(&mut self, arg)` returns the slot's content  *)
(* when it is Some, and otherwise calls the closure on `arg`, stores the   *)
(* result in the slot and returns it.  A panic of the closure unwinds out  *)
(* of `value` before the slot is assigned.                                 *)
(*                                                                         *)
(* Spec      one caller issuing new and then a sequence of value calls.    *)
(* SpecConc  two callers sharing the Cacher; `value` is split into its     *)
(*           steps (borrow, match, call, store) so that interleavings are  *)
(*           visible; the `&mut self` receiver is the exclusion.           *)
(* SpecWorkout  generate_workout of closures-13 for every pair of inputs.  *)
(* SpecCounter  main of shared_state-20: ten threads adding 1 to a         *)
(*           Mutex<i32>; FairSpecCounter adds the scheduler's fairness.    *)
(* SpecChannel  main of message_passing-19: two producers, one receiver;    *)
(*           FairSpecChannel adds the scheduler's fairness.                *)
(* SpecJoin  main of threads-18: two spawned threads, each joined.         *)
(***************************************************************************)
EXTENDS Integers, Sequences, FiniteSets, TLC

\* ---------------------------------------------------------------- bounds
MaxKey == 4
MaxCalls == 4
MaxThreadCalls == 2

Keys == 0 .. MaxKey

\* --------------------------------------------------------- Option<u32>
None == << >>
Some(v) == << v >>
IsSome(o) == o # None
Unwrap(o) == o[1]

\* ------------------------------------------------------------- closures
\* The closures handed to Cacher::new.  "identity" is the closure of
\* generate_workout; the others are further closures of type Fn(u32) -> u32:
\* "double" is |x| x * 2 (the keys of the model are far below u32::MAX / 2,
\* so the product never overflows), "failzero" panics on 0 and returns x
\* otherwise, "flaky" captures interior state and may panic or return x.
Calcs == {"identity", "double", "failzero", "flaky"}
DetCalcs == {"identity", "double", "failzero"}
NoCalc == "none"

Ok(v) == [ok |-> TRUE, v |-> v, err |-> ""]
Panic(e) == [ok |-> FALSE, v |-> 0, err |-> e]

\* The outcomes one invocation (self.calculation)(x) can have.
Outcomes(c, x) ==
    CASE c = "identity" -> {Ok(x)}
      [] c = "double"   -> {Ok(x * 2)}
      [] c = "failzero" -> IF x = 0 THEN {Panic("zero")} ELSE {Ok(x)}
      [] c = "flaky"    -> {Ok(x), Panic("flaky")}

\* The outcome of a deterministic closure.
F(c, x) == CHOOSE o \in Outcomes(c, x) : TRUE

\* ---------------------------------------------------------------- state
VARIABLES
    built,        \* Cacher::new has returned
    calculation,  \* Cacher.calculation
    value,        \* Cacher.value : Option<u32>
    invocations,  \* observable counter: times the closure body has run
    log,          \* the completed value calls, in order
    pc,           \* SpecConc: each caller's position inside value
    local,        \* SpecConc: each caller's arg and the v bound at line 93
    borrow,       \* SpecConc: the caller holding the &mut borrow
    done,         \* SpecConc: value calls completed per caller
    w_pc,         \* generate_workout: position in the function
    intensity,    \* generate_workout: parameter intensity
    random_number,\* generate_workout: parameter random_number
    w_v,          \* generate_workout: the value a println! is about to print
    out,          \* generate_workout: the lines printed so far
    slept,        \* generate_workout: seconds spent in thread::sleep
    s_counter,    \* shared_state: the i32 inside the Mutex
    s_guards,     \* shared_state: the threads holding a MutexGuard
    s_pc,         \* shared_state: position of each spawned thread
    s_num,        \* shared_state: the value a thread has read in *num += 1 (0 outside)
    s_main,       \* shared_state: position of main
    s_i,          \* shared_state: main's loop index (spawned, then joined)
    s_printed,    \* shared_state: what main printed as Result
    m_chan,       \* message_passing: the messages sent and not yet received
    m_pc,         \* message_passing: position of each producer thread
    m_k,          \* message_passing: index in vals of a producer's loop
    m_senders,    \* message_passing: the Sender handles not yet dropped
    m_main,       \* message_passing: position of main
    m_got,        \* message_passing: the strings main printed, in order
    j_main,       \* threads: position of main
    j_i,          \* threads: iterations main's loop has completed
    j_pc,         \* threads: position of each spawned thread
    j_n,          \* threads: iterations the first spawned thread has completed
    j_out         \* threads: the lines printed, in order

cacherVars == << built, calculation, value, invocations, log >>
threadVars == << pc, local, borrow, done >>
workoutVars == << w_pc, intensity, random_number, w_v, out, slept >>
counterVars == << s_counter, s_guards, s_pc, s_num, s_main, s_i, s_printed >>
channelVars == << m_chan, m_pc, m_k, m_senders, m_main, m_got >>
joinVars == << j_main, j_i, j_pc, j_n, j_out >>
progVars == << workoutVars, counterVars, channelVars, joinVars >>
notWorkout == << counterVars, channelVars, joinVars >>
notCounter == << cacherVars, threadVars, workoutVars, channelVars, joinVars >>
notChannel == << cacherVars, threadVars, workoutVars, counterVars, joinVars >>
notJoin == << cacherVars, threadVars, workoutVars, counterVars, channelVars >>
vars == << cacherVars, threadVars, progVars >>

Threads == {1, 2}
NoThread == 0
NoLocal == [arg |-> 0, o |-> Ok(0)]

\* ------------------------------------------------------------ Cacher::new
\* Variant: new evaluates the closure once while constructing.
Cacher_new_Eager(c) == [calculation |-> c, value |-> None, calls |-> 1]

\* Variant: new starts with a filled slot instead of None.
Cacher_new_Filled(c) == [calculation |-> c, value |-> Some(0), calls |-> 0]

\* What new(calculation) builds, and the invocations it performs.
Cacher_new(c) == [calculation |-> c, value |-> None, calls |-> 0]

\* ---------------------------------------------------------- Cacher::value
\* Variant: the None arm forgets `self.value = Some(v)`.
Cacher_value_NoStore(slot, arg, o) ==
    IF IsSome(slot)
    THEN [value |-> slot, calls |-> << >>, ret |-> Some(Unwrap(slot)), err |-> ""]
    ELSE IF o.ok
         THEN [value |-> slot, calls |-> << [arg |-> arg, o |-> o] >>,
               ret |-> Some(o.v), err |-> ""]
         ELSE [value |-> slot, calls |-> << [arg |-> arg, o |-> o] >>,
               ret |-> None, err |-> o.err]

\* Variant: the Some arm is missing, every call computes and stores.
Cacher_value_Overwrite(slot, arg, o) ==
    IF o.ok
    THEN [value |-> Some(o.v), calls |-> << [arg |-> arg, o |-> o] >>,
          ret |-> Some(o.v), err |-> ""]
    ELSE [value |-> slot, calls |-> << [arg |-> arg, o |-> o] >>,
          ret |-> None, err |-> o.err]

\* Variant: the Some arm takes the value out of the slot (self.value.take()).
Cacher_value_Take(slot, arg, o) ==
    IF IsSome(slot)
    THEN [value |-> None, calls |-> << >>, ret |-> Some(Unwrap(slot)), err |-> ""]
    ELSE IF o.ok
         THEN [value |-> Some(o.v), calls |-> << [arg |-> arg, o |-> o] >>,
               ret |-> Some(o.v), err |-> ""]
         ELSE [value |-> slot, calls |-> << [arg |-> arg, o |-> o] >>,
               ret |-> None, err |-> o.err]

\* Variant: a panic of the closure is caught and a default is returned.
Cacher_value_Swallow(slot, arg, o) ==
    IF IsSome(slot)
    THEN [value |-> slot, calls |-> << >>, ret |-> Some(Unwrap(slot)), err |-> ""]
    ELSE IF o.ok
         THEN [value |-> Some(o.v), calls |-> << [arg |-> arg, o |-> o] >>,
               ret |-> Some(o.v), err |-> ""]
         ELSE [value |-> slot, calls |-> << [arg |-> arg, o |-> o] >>,
               ret |-> Some(0), err |-> ""]

\* One call value(arg) on a Cacher whose slot is `slot`, where `o` is the
\* outcome the closure has if it is invoked.  Yields the slot afterwards,
\* the invocations made (calls), and what the caller gets: ret = Some(v) on
\* a normal return, or the panic `err` unwinding out of the call.
Cacher_value(slot, arg, o) ==
    IF IsSome(slot)
    THEN [value |-> slot, calls |-> << >>, ret |-> Some(Unwrap(slot)), err |-> ""]
    ELSE IF o.ok
         THEN [value |-> Some(o.v), calls |-> << [arg |-> arg, o |-> o] >>,
               ret |-> Some(o.v), err |-> ""]
         ELSE [value |-> slot, calls |-> << [arg |-> arg, o |-> o] >>,
               ret |-> None, err |-> o.err]

\* Variant: value puts another closure in place of the stored one.
Cacher_value_calculation_Replaced(c, arg) == "identity"

\* self.calculation after a call value(arg): value only calls the field
\* (line 93) and never assigns it.
Cacher_value_calculation(c, arg) == c

\* The record of one completed call kept in log.
LogRec(arg, before, r) ==
    [arg |-> arg, before |-> before, after |-> r.value,
     calls |-> r.calls, ret |-> r.ret, err |-> r.err]

\* ------------------------------------------------------------- actions
\* The callers of value are idle.
ThreadsIdle ==
    /\ pc = [t \in Threads |-> "idle"]
    /\ local = [t \in Threads |-> NoLocal]
    /\ borrow = NoThread
    /\ done = [t \in Threads |-> 0]

\* generate_workout is not running.
WorkoutOff ==
    /\ w_pc = "off"
    /\ intensity = 0
    /\ random_number = 0
    /\ w_v = None
    /\ out = << >>
    /\ slept = 0

\* The shared-state program is not running.
NumThreads == 10
Workers == 1 .. NumThreads
MainThread == 0

CounterOff ==
    /\ s_counter = 0
    /\ s_guards = {}
    /\ s_pc = [t \in Workers |-> "unspawned"]
    /\ s_num = [t \in Workers |-> 0]
    /\ s_main = "off"
    /\ s_i = 0
    /\ s_printed = None

\* The message-passing program is not running.
Producers == {1, 2}

ChannelOff ==
    /\ m_chan = << >>
    /\ m_pc = [p \in Producers |-> "unspawned"]
    /\ m_k = [p \in Producers |-> 1]
    /\ m_senders = {}
    /\ m_main = "off"
    /\ m_got = << >>

\* The threads program is not running.
Spawned == {1, 2}

JoinOff ==
    /\ j_main = "off"
    /\ j_i = 0
    /\ j_pc = [t \in Spawned |-> "unspawned"]
    /\ j_n = 0
    /\ j_out = << >>

Init ==
    /\ built = FALSE
    /\ calculation = NoCalc
    /\ value = None
    /\ invocations = 0
    /\ log = << >>
    /\ pc = [t \in Threads |-> "idle"]
    /\ local = [t \in Threads |-> NoLocal]
    /\ borrow = NoThread
    /\ done = [t \in Threads |-> 0]
    /\ WorkoutOff
    /\ CounterOff
    /\ ChannelOff
    /\ JoinOff

New ==
    /\ ~built
    /\ \E c \in Calcs :
          LET n == Cacher_new(c) IN
          /\ calculation' = n.calculation
          /\ value' = n.value
          /\ invocations' = invocations + n.calls
    /\ built' = TRUE
    /\ UNCHANGED << log, threadVars, progVars >>

CallValue ==
    /\ built
    /\ Len(log) < MaxCalls
    /\ \E arg \in Keys : \E o \in Outcomes(calculation, arg) :
          LET r == Cacher_value(value, arg, o) IN
          /\ value' = r.value
          /\ invocations' = invocations + Len(r.calls)
          /\ log' = Append(log, LogRec(arg, value, r))
          /\ calculation' = Cacher_value_calculation(calculation, arg)
    /\ UNCHANGED << built, threadVars, progVars >>

Next == New \/ CallValue

Spec == Init /\ [][Next]_vars

\* ----------------------------------------------- value, step by step
\* Two callers share one Cacher.  value takes `&mut self`: a caller enters
\* value only while no other caller holds the exclusive borrow, and gives
\* the borrow back when value returns or unwinds.

\* Variant: the receiver is shared, any caller may enter at any time.
MutBorrow_Shared(holder) == TRUE

\* `&mut self`: the borrow can be taken only while nobody holds it.
MutBorrow(holder) == holder = NoThread

\* value(&mut self, arg) is entered.
Borrow(t) ==
    /\ built
    /\ pc[t] = "idle"
    /\ done[t] < MaxThreadCalls
    /\ MutBorrow(borrow)
    /\ \E arg \in Keys : local' = [local EXCEPT ![t] = [arg |-> arg, o |-> Ok(0)]]
    /\ borrow' = t
    /\ pc' = [pc EXCEPT ![t] = "match"]
    /\ UNCHANGED << cacherVars, done, progVars >>

\* What a caller leaves behind when value returns or unwinds.
Leave(t) ==
    /\ pc' = [pc EXCEPT ![t] = "idle"]
    /\ local' = [local EXCEPT ![t] = NoLocal]
    /\ borrow' = NoThread
    /\ done' = [done EXCEPT ![t] = @ + 1]

\* match self.value: Some(v) => v returns, None goes on to the closure.
Match(t) ==
    /\ pc[t] = "match"
    /\ IF IsSome(value)
       THEN /\ log' = Append(log, [arg |-> local[t].arg, before |-> value,
                                   after |-> value, calls |-> << >>,
                                   ret |-> Some(Unwrap(value)), err |-> ""])
            /\ Leave(t)
       ELSE /\ pc' = [pc EXCEPT ![t] = "call"]
            /\ UNCHANGED << log, local, borrow, done >>
    /\ UNCHANGED << built, calculation, value, invocations, progVars >>

\* let v = (self.calculation)(arg): v is bound, or the panic unwinds.
Call(t) ==
    /\ pc[t] = "call"
    /\ invocations' = invocations + 1
    /\ \E o \in Outcomes(calculation, local[t].arg) :
          IF o.ok
          THEN /\ local' = [local EXCEPT ![t].o = o]
               /\ pc' = [pc EXCEPT ![t] = "store"]
               /\ UNCHANGED << log, borrow, done >>
          ELSE /\ log' = Append(log, [arg |-> local[t].arg, before |-> value,
                                      after |-> value,
                                      calls |-> << [arg |-> local[t].arg, o |-> o] >>,
                                      ret |-> None, err |-> o.err])
               /\ Leave(t)
    /\ UNCHANGED << built, calculation, value, progVars >>

\* self.value = Some(v); v
Store(t) ==
    /\ pc[t] = "store"
    /\ value' = Some(local[t].o.v)
    /\ log' = Append(log, [arg |-> local[t].arg, before |-> value,
                           after |-> Some(local[t].o.v),
                           calls |-> << [arg |-> local[t].arg, o |-> local[t].o] >>,
                           ret |-> Some(local[t].o.v), err |-> ""])
    /\ Leave(t)
    /\ UNCHANGED << built, calculation, invocations, progVars >>

NextConc ==
    \/ New
    \/ \E t \in Threads : Borrow(t)
    \/ \E t \in Threads : Match(t)
    \/ \E t \in Threads : Call(t)
    \/ \E t \in Threads : Store(t)

SpecConc == Init /\ [][NextConc]_vars

\* ---------------------------------------------------- generate_workout
\* generate_workout(intensity, random_number) of closures-13: it builds a
\* Cacher around a closure that prints "calculating slowly...", sleeps two
\* seconds and returns its argument, and prints a plan that uses
\* expensive_result.value(intensity) twice, once or not at all.
MaxIntensity == 27
MaxRandom == 4
IntensityLimit == 25
RestRandom == 3
SleepSecs == 2

Line(text, n) == [text |-> text, n |-> n]
CalcLine == Line("calculating slowly...", None)
BreakLine == Line("Take a break today! Remember to stay hydrated!", None)

\* The format string of the println! at each call site of value.
Format(site) ==
    CASE site = "pushups" -> "Today, do {} pushups!"
      [] site = "situps"  -> "Next, do {} situps!"
      [] site = "run"     -> "Today, run for {} minutes!"

\* Where control goes after the println! of a site.
After(site) == IF site = "pushups" THEN "situps" ELSE "done"

Sites == {"pushups", "situps", "run"}

InitWorkout ==
    /\ built = FALSE
    /\ calculation = NoCalc
    /\ value = None
    /\ invocations = 0
    /\ log = << >>
    /\ ThreadsIdle
    /\ w_pc = "new"
    /\ intensity \in 0 .. MaxIntensity
    /\ random_number \in 0 .. MaxRandom
    /\ w_v = None
    /\ out = << >>
    /\ slept = 0
    /\ CounterOff
    /\ ChannelOff
    /\ JoinOff

\* let mut expensive_result = Cacher::new(|num| { ... });
GW_New ==
    /\ w_pc = "new"
    /\ LET n == Cacher_new("identity") IN
       /\ calculation' = n.calculation
       /\ value' = n.value
       /\ invocations' = invocations + n.calls
       /\ out' = out \o [i \in 1 .. n.calls |-> CalcLine]
       /\ slept' = slept + SleepSecs * n.calls
    /\ built' = TRUE
    /\ w_pc' = "if"
    /\ UNCHANGED << log, threadVars, intensity, random_number, w_v, notWorkout >>

\* if intensity < 25 { .. } else { if random_number == 3 { .. } else { .. } }
GW_If ==
    /\ w_pc = "if"
    /\ w_pc' = IF intensity < IntensityLimit THEN "pushups"
               ELSE IF random_number = RestRandom THEN "break" ELSE "run"
    /\ UNCHANGED << cacherVars, threadVars, intensity, random_number, w_v, out, slept, notWorkout >>

\* expensive_result.value(intensity), the argument of a println!: when the
\* closure runs it prints its line and sleeps before it returns num.
GW_Value ==
    /\ w_pc \in Sites
    /\ w_v = None
    /\ \E o \in Outcomes(calculation, intensity) :
          LET r == Cacher_value(value, intensity, o) IN
          /\ value' = r.value
          /\ invocations' = invocations + Len(r.calls)
          /\ log' = Append(log, LogRec(intensity, value, r))
          /\ calculation' = Cacher_value_calculation(calculation, intensity)
          /\ out' = out \o [i \in 1 .. Len(r.calls) |-> CalcLine]
          /\ slept' = slept + SleepSecs * Len(r.calls)
          /\ w_v' = r.ret
    /\ UNCHANGED << built, threadVars, w_pc, intensity, random_number, notWorkout >>

\* println!("... {} ...", v) with the value just obtained.
GW_Print ==
    /\ w_pc \in Sites
    /\ IsSome(w_v)
    /\ out' = Append(out, Line(Format(w_pc), w_v))
    /\ w_v' = None
    /\ w_pc' = After(w_pc)
    /\ UNCHANGED << cacherVars, threadVars, intensity, random_number, slept, notWorkout >>

\* println!("Take a break today! Remember to stay hydrated!");
GW_Break ==
    /\ w_pc = "break"
    /\ out' = Append(out, BreakLine)
    /\ w_pc' = "done"
    /\ UNCHANGED << cacherVars, threadVars, intensity, random_number, w_v, slept, notWorkout >>

NextWorkout == GW_New \/ GW_If \/ GW_Value \/ GW_Print \/ GW_Break

SpecWorkout == InitWorkout /\ [][NextWorkout]_vars

\* ------------------------------------------------------- shared_state
\* main of shared_state-20: ten threads each lock the Mutex<i32> behind an
\* Arc and add 1; main joins them all, locks once more and prints the value.

\* Variant: lock() hands out a guard although another one is alive.
Mutex_lock_NoExclusion(guards) == TRUE

\* Mutex::lock returns once no MutexGuard of this mutex is alive.
Mutex_lock(guards) == guards = {}

\* Variant: the guard is leaked (mem::forget) and the mutex stays locked.
MutexGuard_drop_Leak(guards, t) == guards

\* Dropping the MutexGuard at the end of its scope unlocks the mutex.
MutexGuard_drop(guards, t) == guards \ {t}

InitCounter ==
    /\ built = FALSE
    /\ calculation = NoCalc
    /\ value = None
    /\ invocations = 0
    /\ log = << >>
    /\ ThreadsIdle
    /\ WorkoutOff
    /\ s_counter = 0
    /\ s_guards = {}
    /\ s_pc = [t \in Workers |-> "unspawned"]
    /\ s_num = [t \in Workers |-> 0]
    /\ s_main = "spawn"
    /\ s_i = 0
    /\ s_printed = None
    /\ ChannelOff
    /\ JoinOff

\* for _ in 0..10 { ... thread::spawn(move || { .. }); handles.push(handle); }
SS_Spawn ==
    /\ s_main = "spawn"
    /\ IF s_i < NumThreads
       THEN /\ s_pc' = [s_pc EXCEPT ![s_i + 1] = "lock"]
            /\ s_i' = s_i + 1
            /\ UNCHANGED s_main
       ELSE /\ s_main' = "join"
            /\ s_i' = 0
            /\ UNCHANGED s_pc
    /\ UNCHANGED << s_counter, s_guards, s_num, s_printed, notCounter >>

\* for handle in handles { handle.join().unwrap(); }
SS_Join ==
    /\ s_main = "join"
    /\ IF s_i < NumThreads
       THEN /\ s_pc[s_i + 1] = "done"
            /\ s_i' = s_i + 1
            /\ UNCHANGED s_main
       ELSE /\ s_main' = "lock"
            /\ UNCHANGED s_i
    /\ UNCHANGED << s_counter, s_guards, s_pc, s_num, s_printed, notCounter >>

\* counter.lock().unwrap() in main's println!
SS_MainLock ==
    /\ s_main = "lock"
    /\ Mutex_lock(s_guards)
    /\ s_guards' = s_guards \cup {MainThread}
    /\ s_main' = "print"
    /\ UNCHANGED << s_counter, s_pc, s_num, s_i, s_printed, notCounter >>

\* println!("Result: {}", *guard); the temporary guard is dropped after it.
SS_MainPrint ==
    /\ s_main = "print"
    /\ s_printed' = Some(s_counter)
    /\ s_guards' = MutexGuard_drop(s_guards, MainThread)
    /\ s_main' = "done"
    /\ UNCHANGED << s_counter, s_pc, s_num, s_i, notCounter >>

\* let mut num = counter.lock().unwrap();
SS_Lock(t) ==
    /\ s_pc[t] = "lock"
    /\ Mutex_lock(s_guards)
    /\ s_guards' = s_guards \cup {t}
    /\ s_pc' = [s_pc EXCEPT ![t] = "read"]
    /\ UNCHANGED << s_counter, s_num, s_main, s_i, s_printed, notCounter >>

\* *num += 1, the read of *num
SS_Read(t) ==
    /\ s_pc[t] = "read"
    /\ s_num' = [s_num EXCEPT ![t] = s_counter]
    /\ s_pc' = [s_pc EXCEPT ![t] = "write"]
    /\ UNCHANGED << s_counter, s_guards, s_main, s_i, s_printed, notCounter >>

\* *num += 1, the write of the sum
SS_Write(t) ==
    /\ s_pc[t] = "write"
    /\ s_counter' = s_num[t] + 1
    /\ s_num' = [s_num EXCEPT ![t] = 0]
    /\ s_pc' = [s_pc EXCEPT ![t] = "drop"]
    /\ UNCHANGED << s_guards, s_main, s_i, s_printed, notCounter >>

\* end of the closure: num goes out of scope and the thread finishes.
SS_Drop(t) ==
    /\ s_pc[t] = "drop"
    /\ s_guards' = MutexGuard_drop(s_guards, t)
    /\ s_pc' = [s_pc EXCEPT ![t] = "done"]
    /\ UNCHANGED << s_counter, s_num, s_main, s_i, s_printed, notCounter >>

MainStep == SS_Spawn \/ SS_Join \/ SS_MainLock \/ SS_MainPrint
WorkerStep(t) == SS_Lock(t) \/ SS_Read(t) \/ SS_Write(t) \/ SS_Drop(t)

NextCounter ==
    \/ SS_Spawn
    \/ SS_Join
    \/ SS_MainLock
    \/ SS_MainPrint
    \/ \E t \in Workers : SS_Lock(t)
    \/ \E t \in Workers : SS_Read(t)
    \/ \E t \in Workers : SS_Write(t)
    \/ \E t \in Workers : SS_Drop(t)

SpecCounter == InitCounter /\ [][NextCounter]_vars

\* The scheduler runs every thread that can take a step.
FairSpecCounter ==
    /\ SpecCounter
    /\ WF_vars(MainStep)
    /\ \A t \in Workers : WF_vars(WorkerStep(t))

\* ---------------------------------------------------- message_passing
\* main of message_passing-19: a channel with two senders; one thread sends
\* "one".."four" down tx1, another sends "five".."eight" down tx, each
\* sleeping a second after every send; main prints what it receives until
\* the channel is closed.

\* let vals = vec![..] of each producer thread.
Vals(p) ==
    IF p = 1 THEN << "one", "two", "three", "four" >>
    ELSE << "five", "six", "seven", "eight" >>

\* Variant: a message is put at the front of the queue.
Sender_send_Front(chan, val) == << val >> \o chan

\* Variant: the channel keeps only the latest message.
Sender_send_Overwrite(chan, val) == << val >>

\* Sender::send puts the value at the back of the channel's queue.
Sender_send(chan, val) == Append(chan, val)

\* Variant: recv gives up as soon as the queue is empty (as try_recv does).
Receiver_closed_Empty(chan, senders) == chan = << >>

\* Receiver::recv fails, ending `for received in rx`, once the queue is
\* empty and every Sender has been dropped.
Receiver_closed(chan, senders) == chan = << >> /\ senders = {}

\* Variant: the received message stays in the queue.
Receiver_recv_Peek(chan) == [val |-> Head(chan), chan |-> chan]

\* Receiver::recv on a non-empty channel takes the value at the front.
Receiver_recv(chan) == [val |-> Head(chan), chan |-> Tail(chan)]

InitChannel ==
    /\ built = FALSE
    /\ calculation = NoCalc
    /\ value = None
    /\ invocations = 0
    /\ log = << >>
    /\ ThreadsIdle
    /\ WorkoutOff
    /\ CounterOff
    /\ JoinOff
    /\ m_chan = << >>
    /\ m_pc = [p \in Producers |-> "unspawned"]
    /\ m_k = [p \in Producers |-> 1]
    /\ m_senders = Producers
    /\ m_main = "spawn1"
    /\ m_got = << >>

\* thread::spawn(move || { .. }): tx1 moves into the first thread, tx into
\* the second.
MP_Spawn ==
    /\ m_main \in {"spawn1", "spawn2"}
    /\ LET p == IF m_main = "spawn1" THEN 1 ELSE 2 IN
       m_pc' = [m_pc EXCEPT ![p] = "send"]
    /\ m_main' = IF m_main = "spawn1" THEN "spawn2" ELSE "recv"
    /\ UNCHANGED << m_chan, m_k, m_senders, m_got, notChannel >>

\* tx.send(val).unwrap(), or the end of the closure once vals is used up:
\* the thread's Sender is dropped.
MP_Send(p) ==
    /\ m_pc[p] = "send"
    /\ IF m_k[p] <= Len(Vals(p))
       THEN /\ m_chan' = Sender_send(m_chan, Vals(p)[m_k[p]])
            /\ m_pc' = [m_pc EXCEPT ![p] = "sleep"]
            /\ UNCHANGED m_senders
       ELSE /\ m_senders' = m_senders \ {p}
            /\ m_pc' = [m_pc EXCEPT ![p] = "done"]
            /\ UNCHANGED m_chan
    /\ UNCHANGED << m_k, m_main, m_got, notChannel >>

\* thread::sleep(Duration::from_secs(1)); then the next val.
MP_Sleep(p) ==
    /\ m_pc[p] = "sleep"
    /\ m_k' = [m_k EXCEPT ![p] = @ + 1]
    /\ m_pc' = [m_pc EXCEPT ![p] = "send"]
    /\ UNCHANGED << m_chan, m_senders, m_main, m_got, notChannel >>

\* for received in rx { println!("Got: {}", received); }: a message is
\* taken and printed.
MP_Recv ==
    /\ m_main = "recv"
    /\ m_chan # << >>
    /\ LET r == Receiver_recv(m_chan) IN
       /\ m_got' = Append(m_got, r.val)
       /\ m_chan' = r.chan
    /\ UNCHANGED << m_pc, m_k, m_senders, m_main, notChannel >>

\* for received in rx: the channel is empty and every Sender is dropped,
\* the iterator ends and main returns.
MP_Closed ==
    /\ m_main = "recv"
    /\ Receiver_closed(m_chan, m_senders)
    /\ m_main' = "done"
    /\ UNCHANGED << m_chan, m_pc, m_k, m_senders, m_got, notChannel >>

NextChannel ==
    \/ MP_Spawn
    \/ \E p \in Producers : MP_Send(p)
    \/ \E p \in Producers : MP_Sleep(p)
    \/ MP_Recv
    \/ MP_Closed

SpecChannel == InitChannel /\ [][NextChannel]_vars

MP_Main == MP_Spawn \/ MP_Recv \/ MP_Closed
MP_Producer(p) == MP_Send(p) \/ MP_Sleep(p)

\* The scheduler runs every thread that can take a step; a sleep ends.
FairSpecChannel ==
    /\ SpecChannel
    /\ WF_vars(MP_Main)
    /\ \A p \in Producers : WF_vars(MP_Producer(p))

\* ------------------------------------------------------------ threads
\* main of threads-18: a first thread prints nine lines, sleeping a
\* millisecond after each, while main prints four; main joins it, spawns a
\* second thread that prints a vector, and joins that one too.
SpawnedIters == 9
MainIters == 4

\* Variant: join returns without waiting for the thread.
JoinHandle_join_NoWait(tpc) == TRUE

\* JoinHandle::join returns once its thread has finished.
JoinHandle_join(tpc) == tpc = "done"

InitJoin ==
    /\ built = FALSE
    /\ calculation = NoCalc
    /\ value = None
    /\ invocations = 0
    /\ log = << >>
    /\ ThreadsIdle
    /\ WorkoutOff
    /\ CounterOff
    /\ ChannelOff
    /\ j_main = "spawn1"
    /\ j_i = 0
    /\ j_pc = [t \in Spawned |-> "unspawned"]
    /\ j_n = 0
    /\ j_out = << >>

\* let hdl1 = thread::spawn(|| { .. });
TH_Spawn1 ==
    /\ j_main = "spawn1"
    /\ j_pc' = [j_pc EXCEPT ![1] = "print"]
    /\ j_main' = "print"
    /\ UNCHANGED << j_i, j_n, j_out, notJoin >>

\* for i in 1..10 { println!("hi number {} from the spawned thread!", i);
\* or the end of the loop and of the thread.
TH_Print1 ==
    /\ j_pc[1] = "print"
    /\ IF j_n < SpawnedIters
       THEN /\ j_out' = Append(j_out, [who |-> "spawned", i |-> j_n + 1])
            /\ j_pc' = [j_pc EXCEPT ![1] = "sleep"]
       ELSE /\ j_pc' = [j_pc EXCEPT ![1] = "done"]
            /\ UNCHANGED j_out
    /\ UNCHANGED << j_main, j_i, j_n, notJoin >>

\* thread::sleep(Duration::from_millis(1)); } in the spawned thread
TH_Sleep1 ==
    /\ j_pc[1] = "sleep"
    /\ j_n' = j_n + 1
    /\ j_pc' = [j_pc EXCEPT ![1] = "print"]
    /\ UNCHANGED << j_main, j_i, j_out, notJoin >>

\* for i in 1..5 { println!("hi number {} from the main thread!", i);
\* or the end of main's loop.
TH_MainPrint ==
    /\ j_main = "print"
    /\ IF j_i < MainIters
       THEN /\ j_out' = Append(j_out, [who |-> "main", i |-> j_i + 1])
            /\ j_main' = "sleep"
       ELSE /\ j_main' = "join1"
            /\ UNCHANGED j_out
    /\ UNCHANGED << j_i, j_pc, j_n, notJoin >>

\* thread::sleep(Duration::from_millis(1)); } in main
TH_MainSleep ==
    /\ j_main = "sleep"
    /\ j_i' = j_i + 1
    /\ j_main' = "print"
    /\ UNCHANGED << j_pc, j_n, j_out, notJoin >>

\* hdl1.join().unwrap();
TH_Join1 ==
    /\ j_main = "join1"
    /\ JoinHandle_join(j_pc[1])
    /\ j_main' = "spawn2"
    /\ UNCHANGED << j_i, j_pc, j_n, j_out, notJoin >>

\* let v = vec![1, 2, 3]; let hdl2 = thread::spawn(move || { .. });
TH_Spawn2 ==
    /\ j_main = "spawn2"
    /\ j_pc' = [j_pc EXCEPT ![2] = "print"]
    /\ j_main' = "join2"
    /\ UNCHANGED << j_i, j_n, j_out, notJoin >>

\* println!("Here's a vector: {:?}", v); and the end of the second thread
TH_Print2 ==
    /\ j_pc[2] = "print"
    /\ j_out' = Append(j_out, [who |-> "vector", i |-> 0])
    /\ j_pc' = [j_pc EXCEPT ![2] = "done"]
    /\ UNCHANGED << j_main, j_i, j_n, notJoin >>

\* hdl2.join().unwrap(); and main returns
TH_Join2 ==
    /\ j_main = "join2"
    /\ JoinHandle_join(j_pc[2])
    /\ j_main' = "done"
    /\ UNCHANGED << j_i, j_pc, j_n, j_out, notJoin >>

NextJoin ==
    \/ TH_Spawn1
    \/ TH_Print1
    \/ TH_Sleep1
    \/ TH_MainPrint
    \/ TH_MainSleep
    \/ TH_Join1
    \/ TH_Spawn2
    \/ TH_Print2
    \/ TH_Join2

SpecJoin == InitJoin /\ [][NextJoin]_vars

\* ------------------------------------------------- observations on log
Idx == 1 .. Len(log)

\* The keys passed to value so far.
Queried == {log[i].arg : i \in Idx}

\* Every invocation of the closure made inside the first n value calls.
RECURSIVE Flat(_)
Flat(n) == IF n = 0 THEN << >> ELSE Flat(n - 1) \o log[n].calls

\* The invocations of the closure for key k, in order.
InvSeq(k) == SelectSeq(Flat(Len(log)), LAMBDA c : c.arg = k)

\* Call j is the first value(k) after call i, for k = log[i].arg.
NextSameKey(i, j) ==
    /\ i < j
    /\ log[j].arg = log[i].arg
    /\ \A m \in Idx : (i < m /\ m < j) => log[m].arg # log[i].arg

\* The keys under which a value call stored a new entry.
CachedKeys == {log[i].arg : i \in {j \in Idx : log[j].before = None /\ IsSome(log[j].after)}}

\* What the caller of one value call sees.
Seen(rec) == [calls |-> rec.calls, ret |-> rec.ret, err |-> rec.err]

\* The value calls for key k alone, replayed on a fresh Cacher holding the
\* deterministic closure c: what each of them shows its caller.
RECURSIVE Replay(_, _, _, _)
Replay(c, k, n, slot) ==
    IF n = 0 THEN << >>
    ELSE LET r == Cacher_value(slot, k, F(c, k)) IN
         << Seen(r) >> \o Replay(c, k, n - 1, r.value)

\* What the callers of value(k) saw, in order.
SeenFor(k) ==
    LET recs == SelectSeq(log, LAMBDA rec : rec.arg = k) IN
    [i \in 1 .. Len(recs) |-> Seen(recs[i])]


\* --------------------------------------------------------------- claims

\* C1: at most once per key.  For every key k that was queried, if the first
\* invocation of the closure for k succeeded, then over the whole sequence of
\* value calls (other keys in between included) the closure was invoked
\* exactly once for k.
C1_AtMostOncePerKey ==
    \A k \in Queried :
        LET s == InvSeq(k) IN
        (s # << >> /\ s[1].o.ok) => Len(s) = 1

\* C1 witness: key k queried, another key queried, k queried again, and the
\* closure ran once for k.
C1_Witness ==
    /\ Len(log) >= 3
    /\ log[1].arg = log[3].arg
    /\ log[2].arg # log[1].arg
    /\ Len(InvSeq(log[1].arg)) = 1
    /\ InvSeq(log[1].arg)[1].o.ok

\* C2 (as claimed): for a deterministic closure f, every call value(key)
\* returns f(key): it ends as f(key) ends, and a call for a key that no
\* earlier call stored invokes f(key).
C2_ReturnsFOfKey ==
    calculation \in DetCalcs =>
        \A i \in Idx :
            LET o == F(calculation, log[i].arg) IN
            /\ o.ok => log[i].ret = Some(o.v)
            /\ ~o.ok => log[i].err = o.err
            /\ (\A j \in 1 .. i - 1 :
                    ~(log[j].arg = log[i].arg /\ IsSome(log[j].ret)))
                => log[i].calls = << [arg |-> log[i].arg, o |-> o] >>

\* C3 (as claimed): key independence.  A call value(k1) invokes the closure
\* for no other key, and the calls value(k2) show their callers exactly what
\* they would show had no call for another key been made.
C3_KeyIndependence ==
    /\ \A i \in Idx : \A j \in 1 .. Len(log[i].calls) :
           log[i].calls[j].arg = log[i].arg
    /\ calculation \in DetCalcs =>
           \A k \in Queried :
               SeenFor(k) = Replay(calculation, k, Len(SeenFor(k)), None)

C5_FailureNotMemoized ==
    \A i \in Idx :
        log[i].err # "" =>
            /\ log[i].after = log[i].before
            /\ log[i].after = None
            /\ \A j \in Idx : NextSameKey(i, j) => log[j].calls # << >>

\* C6: a panic of the closure inside value(k) reaches the caller as that
\* panic: no value is returned, and the closure was invoked once in the call.
C6_FailureSurfaced ==
    \A i \in Idx : \A j \in 1 .. Len(log[i].calls) :
        ~log[i].calls[j].o.ok =>
            /\ log[i].err = log[i].calls[j].o.err
            /\ log[i].ret = None
            /\ Len(log[i].calls) = 1

\* C6 witness: a value call in which the closure panicked.
C6_Witness ==
    \E i \in Idx : log[i].calls # << >> /\ ~log[i].calls[1].o.ok

\* C7: laziness.  Right after new no invocation has happened, and every
\* invocation counted so far was made inside a value call.
C7_Laziness ==
    /\ (built /\ log = << >>) => invocations = 0
    /\ invocations = Len(Flat(Len(log)))

\* C7 witness: new has returned and no value call has been made yet.
C7_Witness == built /\ log = << >> /\ calculation \in Calcs

\* C8: whatever the cache holds was stored by a value call, under a key that
\* was passed to value: the cached keys are a subset of the queried keys, and
\* a filled slot has such a key.
C8_CachedSubsetOfQueried ==
    /\ CachedKeys \subseteq Queried
    /\ IsSome(value) => \E i \in Idx :
           /\ log[i].before = None
           /\ log[i].after = value
           /\ log[i].calls = << [arg |-> log[i].arg, o |-> Ok(Unwrap(value))] >>

\* C8 witness: the slot is filled while some key has never been queried.
C8_Witness == IsSome(value) /\ Queried # Keys /\ Len(log) >= 2

\* C9: the cache only moves Absent -> Computed.  No step removes a stored
\* value or replaces it by a different one, and a step adds at most one
\* entry.
C9_AbsentToComputed ==
    [][ /\ IsSome(value) => value' = value
        /\ Len(value') <= Len(value) + 1 ]_vars

\* C9 witness: a value is stored and later value calls were made, for the
\* storing key and for another one.
C9_Witness ==
    /\ Len(log) >= 3
    /\ IsSome(log[1].after)
    /\ \E i \in 2 .. Len(log) : log[i].arg = log[1].arg
    /\ \E i \in 2 .. Len(log) : log[i].arg # log[1].arg

\* Caller t has found the slot empty and has not yet stored or unwound.
InMiss(t) == pc[t] \in {"call", "store"}

\* C10: with two callers, no two of them are at once between the check and
\* the insert of value for the same key, and the closure is still invoked
\* exactly once for every key whose first invocation succeeded.
C10_AtomicCheckInsert ==
    /\ \A t1 \in Threads : \A t2 \in Threads :
           (t1 # t2 /\ local[t1].arg = local[t2].arg)
               => ~(InMiss(t1) /\ InMiss(t2))
    /\ \A k \in Queried :
           LET s == InvSeq(k) IN
           (s # << >> /\ s[1].o.ok) => Len(s) = 1
    /\ invocations <= 1 + Cardinality({i \in Idx : log[i].err # ""})

\* C10 witness: both callers queried the same key, which was absent at the
\* first query; the first invoked the closure, the second did not.
C10_Witness ==
    /\ Len(log) = 2
    /\ done[1] = 1 /\ done[2] = 1
    /\ log[1].arg = log[2].arg
    /\ log[1].before = None /\ IsSome(log[1].ret)
    /\ log[2].calls = << >>

\* The index in log of the first value call that returned a value (0: none).
FirstReturned ==
    IF \E i \in Idx : IsSome(log[i].ret)
    THEN CHOOSE i \in Idx : IsSome(log[i].ret) /\ \A j \in 1 .. i - 1 : log[j].ret = None
    ELSE 0

\* C11 (as claimed): every value(arg) call after the first successful one
\* returns the result computed for the first argument ever passed to value.
C11_FirstArgumentEver ==
    \A j \in Idx :
        (FirstReturned # 0 /\ FirstReturned < j)
            => /\ log[1].calls # << >>
               /\ log[1].calls[1].o.ok
               /\ log[j].ret = Some(log[1].calls[1].o.v)

\* C11 (amended): once a call value(a) has returned v, every later call
\* value(b) returns v, whatever b is; v is the result the closure computed
\* for a, the argument of the first successful call.
C11_FirstSuccessfulResult ==
    \A j \in Idx :
        (FirstReturned # 0 /\ FirstReturned < j)
            => LET f == log[FirstReturned] IN
               /\ f.calls = << [arg |-> f.arg, o |-> Ok(Unwrap(f.ret))] >>
               /\ log[j].ret = f.ret

\* C11 witness: after value(a) returned, value(b) was called with b # a.
C11_Witness ==
    /\ FirstReturned # 0
    /\ \E j \in Idx : FirstReturned < j /\ log[j].arg # log[FirstReturned].arg

\* C14: a freshly built Cacher has an empty cache, and the first value(k)
\* made on it, for any key k, invokes the closure on k.
C14_FreshCacheEmpty ==
    /\ (built /\ log = << >>) => value = None
    /\ log # << >> =>
           /\ log[1].before = None
           /\ Len(log[1].calls) = 1
           /\ log[1].calls[1].arg = log[1].arg

\* C14 witness: the first value call has been made, for a key other than 0.
C14_Witness == Len(log) = 1 /\ log[1].arg # 0 /\ invocations = 1

\* C15: the closure is fixed at construction.  No step after new changes
\* the stored closure, and every invocation recorded is an invocation of it.
C15_CalculationFixed ==
    [][ built =>
          /\ calculation' = calculation
          /\ \A i \in 1 .. Len(log') : \A j \in 1 .. Len(log'[i].calls) :
                 log'[i].calls[j].o \in Outcomes(calculation, log'[i].calls[j].arg) ]_vars

\* C15 witness: a hit, a miss and a panicking call have all been made.
C15_Witness ==
    /\ \E i \in Idx : log[i].calls = << >>
    /\ \E i \in Idx : log[i].calls # << >> /\ IsSome(log[i].ret)
    /\ \E i \in Idx : log[i].err # ""

\* C16: once an invocation of the closure has returned normally, the closure
\* is never invoked again, whatever the arguments of the later calls, and the
\* slot is Some from then on.
C16_NoInvocationAfterSuccess ==
    LET fl == Flat(Len(log)) IN
    /\ \A i \in 1 .. Len(fl) : fl[i].o.ok => i = Len(fl)
    /\ (\E i \in 1 .. Len(fl) : fl[i].o.ok) => IsSome(value)

\* C16 witness: an invocation returned normally and calls with other
\* arguments followed.
C16_Witness ==
    /\ Len(log) >= 3
    /\ \E i \in 1 .. Len(log) - 2 :
           /\ IsSome(log[i].ret) /\ log[i].calls # << >>
           /\ log[i + 1].arg # log[i].arg
           /\ log[i + 2].arg # log[i + 1].arg

\* C12: in generate_workout with intensity < 25, value(intensity) is called
\* twice and the closure body (its line and its two-second sleep) runs
\* exactly once, before the first line that prints the result.
C12_SideEffectsOnce ==
    /\ \A i \in 1 .. Len(out) :
           out[i].text \in {Format(x) : x \in Sites}
               => /\ out[1] = CalcLine
                  /\ \A j \in 2 .. Len(out) : out[j] # CalcLine
    /\ (w_pc = "done" /\ intensity < IntensityLimit) =>
           /\ Len(log) = 2
           /\ invocations = 1
           /\ slept = SleepSecs
           /\ out = << CalcLine,
                       Line(Format("pushups"), Some(intensity)),
                       Line(Format("situps"), Some(intensity)) >>

\* C12 witness: the run with intensity 10 has printed its situps line.
C12_Witness ==
    /\ w_pc = "done" /\ intensity = 10
    /\ Len(out) = 3 /\ out[3].text = Format("situps")

\* C13: in generate_workout with intensity >= 25 the closure is never
\* invoked when random_number is 3, and is invoked exactly once otherwise.
C13_RunsOnlyIfNeeded ==
    intensity >= IntensityLimit =>
        /\ random_number = RestRandom =>
               /\ invocations = 0 /\ slept = 0 /\ log = << >>
               /\ w_pc = "done" => out = << BreakLine >>
        /\ random_number # RestRandom =>
               /\ invocations <= 1
               /\ w_pc = "done" =>
                      /\ invocations = 1
                      /\ out = << CalcLine, Line(Format("run"), Some(intensity)) >>

\* C13 witness: both runs with intensity >= 25 have ended, one resting and
\* one running.
C13_Witness ==
    /\ w_pc = "done" /\ intensity >= IntensityLimit
    /\ \/ random_number = RestRandom /\ out = << BreakLine >>
       \/ random_number = 4 /\ Len(out) = 2

\* The threads whose increment has been written.
Incremented == {t \in Workers : s_pc[t] \in {"drop", "done"}}

\* C17: no increment is lost and none is applied twice, so the value main
\* prints after joining all handles is exactly 10.
C17_ResultIsTen ==
    /\ s_counter = Cardinality(Incremented)
    /\ s_main = "done" => s_printed = Some(NumThreads)

\* C17 witness: main has printed the result.
C17_Witness == s_main = "done" /\ IsSome(s_printed) /\ s_counter = NumThreads

\* C18: at most one thread, spawned or main, holds the lock, and a thread
\* is inside *num += 1 (or main reads the counter) only while holding it.
C18_MutualExclusion ==
    /\ Cardinality(s_guards) <= 1
    /\ \A t \in Workers : s_pc[t] \in {"read", "write", "drop"} => t \in s_guards
    /\ s_main = "print" => MainThread \in s_guards

\* C18 witness: one thread is between its read and its write while another
\* spawned thread waits for the lock.
C18_Witness ==
    \E t \in Workers : \E u \in Workers :
        s_pc[t] = "write" /\ s_pc[u] = "lock"

\* C19: under fair scheduling every spawned thread gets the lock and
\* finishes, every join returns, main's final lock succeeds and the program
\* terminates with no guard left alive.
C19_Terminates ==
    /\ [](\A t \in Workers : s_pc[t] = "done" => t \notin s_guards)
    /\ \A t \in Workers : <>(t \in s_guards)
    /\ <>(/\ s_main = "done"
          /\ \A t \in Workers : s_pc[t] = "done"
          /\ s_guards = {})

\* C19 witness: the program has ended and the mutex is unlocked.
C19_Witness == s_main = "done" /\ s_guards = {} /\ \A t \in Workers : s_pc[t] = "done"

\* All strings the two producers send.
AllVals == UNION {{Vals(p)[k] : k \in 1 .. Len(Vals(p))} : p \in Producers}

\* The strings producer p has sent so far.
SentBy(p) ==
    {Vals(p)[k] : k \in {j \in 1 .. Len(Vals(p)) :
                            j < m_k[p] \/ (j = m_k[p] /\ m_pc[p] = "sleep")}}

\* How often string v occurs in sequence q.
Count(q, v) == Cardinality({i \in 1 .. Len(q) : q[i] = v})

\* C20: everything sent down either sender ends up at the receiver: every
\* string sent is in the channel or printed, exactly once, and when main's
\* loop has ended it has printed each of the 8 strings exactly once.
C20_AllReceivedOnce ==
    /\ \A v \in AllVals :
           Count(m_got \o m_chan, v) =
               IF v \in SentBy(1) \cup SentBy(2) THEN 1 ELSE 0
    /\ m_main = "done" =>
           /\ Len(m_got) = Cardinality(AllVals)
           /\ \A v \in AllVals : Count(m_got, v) = 1

\* C20 witness: main's loop has ended having printed strings of both
\* producers interleaved.
C20_Witness ==
    /\ m_main = "done"
    /\ Len(m_got) = 8
    /\ m_got[1] = "five" /\ m_got[2] = "one" /\ m_got[8] = "four"

\* C21: main's receive loop ends only when the channel is closed, that is
\* after both producers have finished and dropped their Sender and all 8
\* strings have been received, and under fair scheduling it does end.
C21_LoopEndsWhenClosed ==
    /\ [](m_main = "done" =>
             /\ m_senders = {}
             /\ \A p \in Producers : m_pc[p] = "done" /\ m_k[p] > Len(Vals(p))
             /\ m_chan = << >>
             /\ Len(m_got) = Cardinality(AllVals))
    /\ <>(m_main = "done")

\* C21 witness: the loop has ended with nothing left in the channel.
C21_Witness ==
    m_main = "done" /\ m_senders = {} /\ m_chan = << >> /\ m_got # << >>

\* The strings of producer p among those of sequence q, in q's order.
From(p, q) == SelectSeq(q, LAMBDA v : \E k \in 1 .. Len(Vals(p)) : Vals(p)[k] = v)

\* C22: the strings of one producer are received in the order that
\* producer sent them: what main has printed of a producer is a prefix of
\* that producer's vals, and all of them once the loop has ended.
C22_PerProducerOrder ==
    \A p \in Producers :
        LET g == From(p, m_got) IN
        /\ Len(g) <= Len(Vals(p))
        /\ g = SubSeq(Vals(p), 1, Len(g))
        /\ m_main = "done" => g = Vals(p)

\* C22 witness: the loop has ended and the second producer's first two
\* strings were printed before any of the first producer's.
C22_Witness ==
    /\ m_main = "done"
    /\ m_got[1] = "five" /\ m_got[2] = "six" /\ m_got[3] = "one"
    /\ m_got[8] = "eight"

\* The lines of j_out printed by `who`.
LinesOf(who) == SelectSeq(j_out, LAMBDA l : l.who = who)

\* C23: join waits for its thread.  Once hdl1.join() has returned, hence
\* when the second thread is spawned and when main exits, the first thread
\* has finished all 9 iterations, whatever the interleaving with main's own
\* 4 iterations; the vector line comes after all nine of its lines.
C23_JoinWaits ==
    /\ (j_main \in {"spawn2", "join2", "done"} \/ j_pc[2] # "unspawned") =>
           /\ j_pc[1] = "done"
           /\ j_n = SpawnedIters
           /\ LinesOf("spawned") = [k \in 1 .. SpawnedIters |-> [who |-> "spawned", i |-> k]]
           /\ LinesOf("main") = [k \in 1 .. MainIters |-> [who |-> "main", i |-> k]]
    /\ j_main = "done" =>
           /\ j_pc[2] = "done"
           /\ Len(j_out) = SpawnedIters + MainIters + 1
           /\ j_out[Len(j_out)].who = "vector"

\* C23 witness: main has exited after a run in which main printed its
\* first line before the spawned thread's first, and its last line after
\* the spawned thread's fifth.
C23_Witness ==
    /\ j_main = "done"
    /\ j_out[1].who = "main"
    /\ j_out[2].who = "spawned"
    /\ \E a \in 1 .. Len(j_out) : \E b \in 1 .. Len(j_out) :
           /\ a < b
           /\ j_out[a] = [who |-> "spawned", i |-> 5]
           /\ j_out[b] = [who |-> "main", i |-> 4]

====
